---------------------------- MODULE Spec2Model ----------------------------
(***************************************************************************)
(* A model of tracktable's terrestrial domain (Domain/Terrestrial.h), its  *)
(* floating point comparison helpers and the fraction-sampling drivers.    *)
(*                                                                         *)
(* C++ double values are modelled by the type Num: the exact value         *)
(* (n / d) * 10^e of a finite double, or one of the IEEE specials          *)
(* +infinity, -infinity and NaN.  Arithmetic on Num is exact (real number  *)
(* semantics, no rounding), except that an addend more than twenty         *)
(* decimal orders of magnitude below the other is absorbed, as it is in    *)
(* 53-bit arithmetic.  TLC's integers are 32 bits wide and an overflow is  *)
(* an error of the check, so the inputs are chosen to keep every           *)
(* intermediate value exact.                                               *)
(***************************************************************************)
EXTENDS Integers, Sequences, FiniteSets, TLC

-----------------------------------------------------------------------------
(* Num: the values of a C++ double *)

RECURSIVE Gcd(_, _)
Gcd(a, b) == IF b = 0 THEN a ELSE Gcd(b, a % b)

RECURSIVE Pow10(_)
Pow10(k) == IF k <= 0 THEN 1 ELSE 10 * Pow10(k - 1)

RECURSIVE Digits(_)
Digits(n) == IF n < 10 THEN 1 ELSE 1 + Digits(n \div 10)

AbsInt(i) == IF i < 0 THEN -i ELSE i
MinInt(i, j) == IF i < j THEN i ELSE j

RECURSIVE Pow(_, _)
Pow(b, k) == IF k <= 0 THEN 1 ELSE b * Pow(b, k - 1)

\* How many times p divides n, n > 0.
RECURSIVE Multiplicity(_, _)
Multiplicity(n, p) == IF n % p = 0 THEN 1 + Multiplicity(n \div p, p) ELSE 0

\* Integer division truncating toward zero, as C++ does.
TruncDiv(a, b) == IF a >= 0 THEN a \div b ELSE -((-a) \div b)

Fin(n, d, e) == [k |-> "fin", n |-> n, d |-> d, e |-> e]
Zero == Fin(0, 1, 0)
One == Fin(1, 1, 0)
PosInf == [k |-> "inf", n |-> 1, d |-> 1, e |-> 0]
NegInf == [k |-> "inf", n |-> -1, d |-> 1, e |-> 0]
NaN == [k |-> "nan", n |-> 0, d |-> 1, e |-> 0]

\* Canonical form of n/d * 10^e for n > 0, d > 0 coprime: neither is a
\* multiple of ten and d is coprime to ten.
RECURSIVE Strip(_, _, _)
Strip(n, d, e) ==
  IF n % 10 = 0 THEN Strip(n \div 10, d, e + 1)
  ELSE IF d % 10 = 0 THEN Strip(n, d \div 10, e - 1)
  ELSE IF d % 2 = 0 THEN Strip(n * 5, d \div 2, e - 1)
  ELSE IF d % 5 = 0 THEN Strip(n * 2, d \div 5, e - 1)
  ELSE Fin(n, d, e)

\* The Num of value n/d * 10^e, d # 0.
Norm(n, d, e) ==
  IF n = 0 THEN Zero
  ELSE LET g == Gcd(AbsInt(n), AbsInt(d))
           p == Strip(AbsInt(n) \div g, AbsInt(d) \div g, e)
       IN  IF (n < 0) = (d < 0) THEN p ELSE [p EXCEPT !.n = -p.n]

\* A decimal literal m * 10^e, and an integer.
Dec(m, e) == Norm(m, 1, e)
I2N(i) == Norm(i, 1, 0)

IsNaN(x) == x.k = "nan"
IsInf(x) == x.k = "inf"
IsFin(x) == x.k = "fin"
IsZero(x) == x.k = "fin" /\ x.n = 0
SignOf(x) == IF x.n > 0 THEN 1 ELSE IF x.n < 0 THEN -1 ELSE 0

Neg(x) == IF IsNaN(x) THEN NaN ELSE [x EXCEPT !.n = -x.n]
Abs(x) == IF IsNaN(x) THEN NaN ELSE [x EXCEPT !.n = AbsInt(x.n)]

\* The decimal position of the leading digit of a nonzero finite x (within one).
Mag(x) == x.e + Digits(AbsInt(x.n)) - Digits(x.d)

\* x < y for finite x, y > 0.
PosLess(x, y) ==
  LET A == x.n * y.d
      B == y.n * x.d
      LA == Digits(A) + x.e
      LB == Digits(B) + y.e
  IN  IF LA # LB THEN LA < LB
      ELSE IF x.e >= y.e THEN A * Pow10(x.e - y.e) < B
      ELSE A < B * Pow10(y.e - x.e)

\* operator< on doubles: false whenever an operand is NaN.
Less(x, y) ==
  IF IsNaN(x) \/ IsNaN(y) THEN FALSE
  ELSE IF IsInf(x) THEN x.n < 0 /\ y # NegInf
  ELSE IF IsInf(y) THEN y.n > 0
  ELSE IF SignOf(x) # SignOf(y) THEN SignOf(x) < SignOf(y)
  ELSE IF SignOf(x) = 0 THEN FALSE
  ELSE IF SignOf(x) > 0 THEN PosLess(x, y)
  ELSE PosLess(Neg(y), Neg(x))

\* operator== on doubles: NaN equals nothing, itself included.
Eq(x, y) == ~IsNaN(x) /\ ~IsNaN(y) /\ x = y

Leq(x, y) == Less(x, y) \/ Eq(x, y)

\* operator+ on doubles.
Add(x, y) ==
  IF IsNaN(x) \/ IsNaN(y) THEN NaN
  ELSE IF IsInf(x) THEN (IF IsInf(y) /\ y.n # x.n THEN NaN ELSE x)
  ELSE IF IsInf(y) THEN y
  ELSE IF IsZero(x) THEN y
  ELSE IF IsZero(y) THEN x
  ELSE IF Mag(x) - Mag(y) >= 20 THEN x
  ELSE IF Mag(y) - Mag(x) >= 20 THEN y
  ELSE LET em == IF x.e < y.e THEN x.e ELSE y.e
       IN  Norm(x.n * y.d * Pow10(x.e - em) + y.n * x.d * Pow10(y.e - em),
                x.d * y.d, em)

\* operator- on doubles.
Sub(x, y) == Add(x, Neg(y))

\* a * b / d * 10^e for a, b, d > 0, with the sign sgn.  The fives of one
\* factor and the twos of the other make tens, which go to the exponent
\* before the product is taken.
MulTens(a, b, k, d, e, sgn) ==
  Norm(sgn * (a \div Pow(5, k)) * (b \div Pow(2, k)), d, e + k)

MulFives(a, b, d, e, sgn) ==
  MulTens(a, b, MinInt(Multiplicity(a, 5), Multiplicity(b, 2)), d, e, sgn)

MulTwos(a, b, k, d, e, sgn) ==
  MulFives(a \div Pow(2, k), b \div Pow(5, k), d, e + k, sgn)

MulReduced(a, b, d, e, sgn) ==
  MulTwos(a, b, MinInt(Multiplicity(a, 2), Multiplicity(b, 5)), d, e, sgn)

MulFinite(x, y, g1, g2) ==
  MulReduced(AbsInt(x.n) \div g1, AbsInt(y.n) \div g2,
             (x.d \div g2) * (y.d \div g1), x.e + y.e, SignOf(x) * SignOf(y))

\* operator* on doubles.
Mul(x, y) ==
  IF IsNaN(x) \/ IsNaN(y) THEN NaN
  ELSE IF IsInf(x) \/ IsInf(y)
       THEN (IF IsZero(x) \/ IsZero(y) THEN NaN
             ELSE IF SignOf(x) = SignOf(y) THEN PosInf ELSE NegInf)
  ELSE IF IsZero(x) \/ IsZero(y) THEN Zero
  ELSE MulFinite(x, y, Gcd(AbsInt(x.n), y.d), Gcd(AbsInt(y.n), x.d))

\* operator/ on doubles.
Div(x, y) ==
  IF IsNaN(x) \/ IsNaN(y) THEN NaN
  ELSE IF IsInf(x)
       THEN (IF IsInf(y) THEN NaN
             ELSE IF (x.n > 0) = (y.n >= 0) THEN PosInf ELSE NegInf)
  ELSE IF IsInf(y) THEN Zero
  ELSE IF IsZero(y)
       THEN (IF IsZero(x) THEN NaN ELSE IF x.n > 0 THEN PosInf ELSE NegInf)
  ELSE IF IsZero(x) THEN Zero
  ELSE LET g1 == Gcd(AbsInt(x.n), AbsInt(y.n))
           g2 == Gcd(x.d, y.d)
       IN  Norm((x.n \div g1) * (y.d \div g2), (x.d \div g2) * (y.n \div g1),
                x.e - y.e)

-----------------------------------------------------------------------------
(* The state: the arguments and the result of the library call made last,  *)
(* and the objects the calls read.                                         *)

VARIABLES
  nums,      \* the two doubles handed to the floating point comparisons
  from_pt,   \* a TerrestrialTrajectoryPoint: `this' of ECEF, `from' of speed_between
  to_pt,     \* a TerrestrialTrajectoryPoint: `to' of speed_between
  path,      \* a trajectory: a sequence of trajectory points
  op,        \* the function called last, "none" before the first call
  args,      \* its scalar arguments
  ret        \* what it returned or threw

vars == <<nums, from_pt, to_pt, path, op, args, ret>>

\* A behaviour draws the objects and makes one call: the functions are pure,
\* so a second call would find the same objects and add nothing.
Idle == op = "none"

-----------------------------------------------------------------------------
(* Bounds of the model *)

\* Clock ticks per second of a timestamp (boost::posix_time counts
\* microseconds; the model needs only that a second has several ticks).
TicksPerSecond == 2

-----------------------------------------------------------------------------
(* FloatingPointComparison.h *)

\* settings::EQUALITY_RELATIVE_TOLERANCE = 1e-5
EQUALITY_RELATIVE_TOLERANCE == Dec(1, -5)

\* std::numeric_limits<double>::epsilon() = 2^-52, to nine digits
DBL_EPSILON == Dec(222044605, -24)

\* std::numeric_limits<double>::min() = 2^-1022, to nine digits
DBL_MIN == Dec(222507386, -316)

almost_zero(z, epsilon) == Less(Abs(z), epsilon)

\* almost_zero(z) with the default epsilon
almost_zero_default(z) == almost_zero(z, EQUALITY_RELATIVE_TOLERANCE)

almost_equal_noshortcut(a, b, tolerance) ==
  LET abs_a == Abs(a)
      abs_b == Abs(b)
      diff == Abs(Sub(a, b))
  IN  IF Eq(a, Zero) \/ Eq(b, Zero) \/ Less(diff, DBL_EPSILON)
      THEN Less(diff, Mul(tolerance, DBL_MIN))
      ELSE Less(Div(diff, Add(abs_a, abs_b)), tolerance)

almost_equal_unscaled(a, b, tolerance) ==
  LET diff == Abs(Sub(a, b))
  IN  IF Eq(a, b) THEN TRUE
      ELSE IF Eq(a, Zero) \/ Eq(b, Zero) \/ Less(diff, DBL_EPSILON)
      THEN Less(diff, Mul(tolerance, DBL_MIN))
      ELSE Less(diff, tolerance)

almost_equal_absolute_at_zero(a, b, tolerance) ==
  LET abs_a == Abs(a)
      abs_b == Abs(b)
      diff == Abs(Sub(a, b))
  IN  IF Eq(a, b) THEN TRUE
      ELSE IF Eq(a, Zero) \/ Eq(b, Zero) \/ Less(diff, DBL_EPSILON)
      THEN Less(diff, tolerance)
      ELSE Less(Div(diff, Add(abs_a, abs_b)), tolerance)

almost_equal(a, b, tolerance) ==
  LET abs_a == Abs(a)
      abs_b == Abs(b)
      diff == Abs(Sub(a, b))
  IN  IF Eq(a, b) THEN TRUE
      ELSE IF Eq(a, Zero) \/ Eq(b, Zero) \/ Less(diff, DBL_EPSILON)
      THEN Less(diff, Mul(tolerance, DBL_MIN))
      ELSE Less(Div(diff, Add(abs_a, abs_b)), tolerance)

\* The doubles the comparisons are tried on: zero, values near one, tiny
\* values of both signs, values around and below epsilon, subnormal
\* values, a large value and the IEEE specials.
Doubles ==
  { Zero, One, Neg(One), Dec(100002, -5), Dec(11, -1),
    Dec(1, -9), Dec(1, -10), Dec(-1, -10), Dec(3, -10),
    Dec(1, -17), Dec(2, -17), Dec(1, -320), Dec(3, -320), Dec(1, 300),
    PosInf, NegInf, NaN }

Tolerances == { EQUALITY_RELATIVE_TOLERANCE, Zero, Dec(1, -1), Dec(2, 0), NaN }

\* Two doubles whose sum and difference the model computes exactly: within
\* eight orders of magnitude of each other, or so far apart that the
\* smaller one is absorbed.
Commensurable(x, y) ==
  \/ ~IsFin(x) \/ ~IsFin(y) \/ IsZero(x) \/ IsZero(y)
  \/ AbsInt(Mag(x) - Mag(y)) <= 8
  \/ AbsInt(Mag(x) - Mag(y)) >= 20

NoPoint == [lon |-> Zero, lat |-> Zero, ts |-> 0, props |-> <<>>]

InitFloat ==
  /\ nums \in { p \in [a : Doubles, b : Doubles] : Commensurable(p.a, p.b) }
  /\ from_pt = NoPoint
  /\ to_pt = NoPoint
  /\ path = <<>>
  /\ op = "none"
  /\ args = <<>>
  /\ ret = <<>>

CallAlmostZero ==
  /\ Idle
  /\ \E epsilon \in Tolerances :
       /\ args' = <<epsilon>>
       /\ ret' = almost_zero(nums.a, epsilon)
  /\ op' = "almost_zero"
  /\ UNCHANGED <<nums, from_pt, to_pt, path>>

CallAlmostEqual ==
  /\ Idle
  /\ \E tolerance \in Tolerances :
       /\ args' = <<tolerance>>
       /\ ret' = almost_equal(nums.a, nums.b, tolerance)
  /\ op' = "almost_equal"
  /\ UNCHANGED <<nums, from_pt, to_pt, path>>

NextFloat == CallAlmostZero \/ CallAlmostEqual

SpecFloat == InitFloat /\ [][NextFloat]_vars

-----------------------------------------------------------------------------
(* Points of the terrestrial domain.  A TerrestrialTrajectoryPoint holds a *)
(* longitude and a latitude in degrees, a timestamp (in clock ticks) and a *)
(* property store.  Every point of the model lies on the equator at a      *)
(* multiple of ninety degrees, where sine and cosine are exact.            *)

PropertyNames == {"altitude", "height"}

\* A slot of the property store: absence is a state of its own.
Absent == [present |-> FALSE, value |-> Zero]
Real(v) == [present |-> TRUE, value |-> v]

Point(lon, lat, ts, props) ==
  [lon |-> lon, lat |-> lat, ts |-> ts, props |-> props]

NoProperties == [name \in PropertyNames |-> Absent]

\* What a call returns or throws.
Ok(v) == [kind |-> "ok", val |-> v]
Throw(exc, what) == [kind |-> "throw", exc |-> exc, what |-> what]

\* real_property(name): the fail-fast accessor.
real_property(this, name) ==
  IF this.props[name].present
  THEN Ok(this.props[name].value)
  ELSE Throw("PropertyNotFound", name)

\* real_property(name, &ok): the non-throwing accessor.  When the property
\* is absent it returns a placeholder the caller must not rely on.
real_property_ok(this, name, placeholder) ==
  IF this.props[name].present
  THEN [value |-> this.props[name].value, ok |-> TRUE]
  ELSE [value |-> placeholder, ok |-> FALSE]

\* pi, as the fraction 22/7 = 3.1429, which keeps the distances in km and
\* their multiples within 32 bits
Pi == Div(I2N(22), I2N(7))

\* conversions::radians
radians(degrees) == Div(Mul(degrees, Pi), I2N(180))

\* sin, cos and sqrt of <cmath>, at the arguments where they are exact.
Sin(x) ==
  CASE x = radians(I2N(0)) -> Zero
    [] x = radians(I2N(90)) -> One
    [] x = radians(I2N(180)) -> Zero
    [] x = radians(I2N(-90)) -> Neg(One)

Cos(x) ==
  CASE x = radians(I2N(0)) -> One
    [] x = radians(I2N(90)) -> Zero
    [] x = radians(I2N(180)) -> Neg(One)
    [] x = radians(I2N(-90)) -> Zero

Sqrt(x) ==
  CASE x = One -> One
    [] x = Zero -> Zero

-----------------------------------------------------------------------------
(* Domain/Terrestrial.h: the ECEF transform *)

\* constexpr double a = 6378.137
WGS84_a == Dec(6378137, -3)

\* constexpr double e2 = 8.1819190842622e-2 * 8.1819190842622e-2, which is
\* 0.0066943799901; the model carries 1/149 = 0.0067114, the closest value
\* for which a * (1 - e2) fits 32 bits.  At every latitude of the model the
\* sine is zero and e2 cancels.
WGS84_e2 == Div(One, I2N(149))

ECEF_from_km_swapped(_longitude, _latitude, _altitude) ==
  LET sinLatitude == Sin(_latitude)
      n == Div(WGS84_a,
               Sqrt(Sub(One, Mul(Mul(WGS84_e2, sinLatitude), sinLatitude))))
      NAC == Mul(Add(n, _altitude), Cos(_latitude))
  IN  << Mul(NAC, Sin(_longitude)),
         Mul(NAC, Cos(_longitude)),
         Mul(Add(Mul(n, Sub(One, WGS84_e2)), _altitude), sinLatitude) >>

ECEF_from_km(_longitude, _latitude, _altitude) ==
  LET sinLatitude == Sin(_latitude)
      n == Div(WGS84_a,
               Sqrt(Sub(One, Mul(Mul(WGS84_e2, sinLatitude), sinLatitude))))
      NAC == Mul(Add(n, _altitude), Cos(_latitude))
  IN  << Mul(NAC, Cos(_longitude)),
         Mul(NAC, Sin(_longitude)),
         Mul(Add(Mul(n, Sub(One, WGS84_e2)), _altitude), sinLatitude) >>

\* ECEF(): the altitude is the property "altitude", in km.
ECEF(this) ==
  LET altitude == real_property(this, "altitude")
  IN  IF altitude.kind = "throw" THEN altitude
      ELSE Ok(ECEF_from_km(radians(this.lon), radians(this.lat), altitude.val))

ECEF_ratio_unchecked(this, ratio, _altitudeString, placeholder) ==
  LET found == real_property_ok(this, _altitudeString, placeholder)
      altitude == Mul(ratio, found.value)
  IN  Ok(ECEF_from_km(radians(this.lon), radians(this.lat), altitude))

ECEF_ratio_unscaled(this, ratio, _altitudeString, placeholder) ==
  LET found == real_property_ok(this, _altitudeString, placeholder)
      altitude == found.value
  IN  IF ~found.ok THEN Throw("PropertyDoesNotExist", _altitudeString)
      ELSE Ok(ECEF_from_km(radians(this.lon), radians(this.lat), altitude))

\* ECEF(ratio, _altitudeString)
ECEF_ratio(this, ratio, _altitudeString, placeholder) ==
  LET found == real_property_ok(this, _altitudeString, placeholder)
      altitude == Mul(ratio, found.value)
  IN  IF ~found.ok THEN Throw("PropertyDoesNotExist", _altitudeString)
      ELSE Ok(ECEF_from_km(radians(this.lon), radians(this.lat), altitude))

\* constexpr auto feetToKilometers = 1.0 / 3280.839895013123, the double
\* 0.00030480000000000004: 0.3048 m to the foot.
feetToKilometers == Dec(3048, -7)

\* constexpr auto metersToKilometers = 1.0 / 1000.0
metersToKilometers == Div(One, I2N(1000))

ECEF_from_feet(this, _altitudeString, placeholder) ==
  ECEF_ratio(this, feetToKilometers, _altitudeString, placeholder)

ECEF_from_meters(this, _altitudeString, placeholder) ==
  ECEF_ratio(this, metersToKilometers, _altitudeString, placeholder)

-----------------------------------------------------------------------------
(* Domain/Terrestrial.h: distance and speed *)

\* boost::geometry::distance on two points of the equator: the angle
\* between them, in radians.
bg_distance(from, to) ==
  LET d == Abs(Sub(from.lon, to.lon))
  IN  radians(IF Less(I2N(180), d) THEN Sub(I2N(360), d) ELSE d)

\* conversions::radians_to_km: times the mean radius of the Earth, 6371 km
EARTH_RADIUS_IN_KM == Dec(6371, 0)
radians_to_km(r) == Mul(r, EARTH_RADIUS_IN_KM)

distance_in_radians_only(from, to) ==
  LET distance_in_radians == bg_distance(from, to)
  IN  distance_in_radians

\* algorithms::distance<terrestrial>::apply
distance(from, to) ==
  LET distance_in_radians == bg_distance(from, to)
  IN  radians_to_km(distance_in_radians)

\* boost::geometry::length on a trajectory: the sum of the angles between
\* consecutive points, in radians; 0 for fewer than two points.
RECURSIVE bg_length(_)
bg_length(trajectory) ==
  IF Len(trajectory) < 2 THEN Zero
  ELSE Add(bg_length(SubSeq(trajectory, 1, Len(trajectory) - 1)),
           bg_distance(trajectory[Len(trajectory) - 1],
                       trajectory[Len(trajectory)]))

\* algorithms::length<terrestrial::trajectory_type>::apply
length(trajectory) == radians_to_km(bg_length(trajectory))

total_seconds_floor(ticks) == ticks \div TicksPerSecond

\* time_duration::total_seconds(): whole seconds, the fraction cut off
total_seconds(ticks) == TruncDiv(ticks, TicksPerSecond)

speed_between_unguarded(from, to) ==
  LET distance_traveled == distance(from, to)
      seconds_elapsed == I2N(total_seconds(to.ts - from.ts))
  IN  Div(Mul(Dec(3600, 0), distance_traveled), seconds_elapsed)

\* algorithms::speed_between<TerrestrialTrajectoryPoint>::apply
speed_between(from, to) ==
  LET distance_traveled == distance(from, to)
      seconds_elapsed == I2N(total_seconds(to.ts - from.ts))
  IN  IF almost_zero_default(seconds_elapsed)
      THEN Zero
      ELSE Div(Mul(Dec(3600, 0), distance_traveled), seconds_elapsed)

-----------------------------------------------------------------------------
(* SpecSpeed: distance and speed_between on every pair of points *)

Longitudes == {I2N(0), I2N(90), I2N(180), I2N(-90)}

\* Timestamps, in ticks: the same instant, a fraction of a second later, a
\* whole second and more, an hour.
Timestamps ==
  {0, 1, TicksPerSecond, TicksPerSecond + 1, 2 * TicksPerSecond,
   3600 * TicksPerSecond}

BarePoints ==
  {Point(lon, Zero, ts, NoProperties) : lon \in Longitudes, ts \in Timestamps}

InitSpeed ==
  /\ nums = [a |-> Zero, b |-> Zero]
  /\ from_pt \in BarePoints
  /\ to_pt \in BarePoints
  /\ path = <<>>
  /\ op = "none"
  /\ args = <<>>
  /\ ret = <<>>

CallDistance ==
  /\ Idle
  /\ op' = "distance"
  /\ args' = <<>>
  /\ ret' = distance(from_pt, to_pt)
  /\ UNCHANGED <<nums, from_pt, to_pt, path>>

CallSpeedBetween ==
  /\ Idle
  /\ op' = "speed_between"
  /\ args' = <<>>
  /\ ret' = speed_between(from_pt, to_pt)
  /\ UNCHANGED <<nums, from_pt, to_pt, path>>

\* length on the trajectory that goes from from_pt to to_pt by way of a
\* third point, args[1].
CallLength ==
  /\ Idle
  /\ \E via \in BarePoints :
       /\ via.ts = from_pt.ts
       /\ args' = <<via>>
       /\ ret' = length(<<from_pt, via, to_pt>>)
  /\ op' = "length"
  /\ UNCHANGED <<nums, from_pt, to_pt, path>>

NextSpeed == CallDistance \/ CallSpeedBetween \/ CallLength

SpecSpeed == InitSpeed /\ [][NextSpeed]_vars

-----------------------------------------------------------------------------
(* SpecECEF: the ECEF transform and its wrappers on every point *)

\* Property stores: the altitude absent, zero or 5000; a second property
\* absent or 2500.
Stores ==
  { [name \in PropertyNames |->
       IF name = "altitude" THEN alt ELSE height] :
    alt \in {Absent, Real(Zero), Real(I2N(5000))},
    height \in {Absent, Real(I2N(2500))} }

StoredPoints ==
  {Point(lon, Zero, ts, props) :
     lon \in Longitudes, ts \in {0, TicksPerSecond}, props \in Stores}

\* What the non-throwing accessor may hand back for an absent property.
Placeholders == {Zero, One, NaN}

Ratios == {One, metersToKilometers, feetToKilometers}

Altitudes == {Zero, One, Dec(3048, -3), Dec(-5, -1)}

InitECEF ==
  /\ nums = [a |-> Zero, b |-> Zero]
  /\ from_pt \in StoredPoints
  /\ to_pt = NoPoint
  /\ path = <<>>
  /\ op = "none"
  /\ args = <<>>
  /\ ret = <<>>

CallECEFFromKm ==
  /\ Idle
  /\ \E lon \in Longitudes, alt \in Altitudes :
       /\ args' = <<radians(lon), radians(Zero), alt>>
       /\ ret' = Ok(ECEF_from_km(radians(lon), radians(Zero), alt))
  /\ op' = "ECEF_from_km"
  /\ UNCHANGED <<nums, from_pt, to_pt, path>>

CallECEF ==
  /\ Idle
  /\ op' = "ECEF"
  /\ args' = <<One, "altitude">>
  /\ ret' = ECEF(from_pt)
  /\ UNCHANGED <<nums, from_pt, to_pt, path>>

CallECEFRatio ==
  /\ Idle
  /\ \E ratio \in Ratios, name \in PropertyNames, placeholder \in Placeholders :
       /\ args' = <<ratio, name>>
       /\ ret' = ECEF_ratio(from_pt, ratio, name, placeholder)
  /\ op' = "ECEF_ratio"
  /\ UNCHANGED <<nums, from_pt, to_pt, path>>

CallECEFFromFeet ==
  /\ Idle
  /\ \E name \in PropertyNames, placeholder \in Placeholders :
       /\ args' = <<feetToKilometers, name>>
       /\ ret' = ECEF_from_feet(from_pt, name, placeholder)
  /\ op' = "ECEF_from_feet"
  /\ UNCHANGED <<nums, from_pt, to_pt, path>>

CallECEFFromMeters ==
  /\ Idle
  /\ \E name \in PropertyNames, placeholder \in Placeholders :
       /\ args' = <<metersToKilometers, name>>
       /\ ret' = ECEF_from_meters(from_pt, name, placeholder)
  /\ op' = "ECEF_from_meters"
  /\ UNCHANGED <<nums, from_pt, to_pt, path>>

NextECEF ==
  \/ CallECEFFromKm
  \/ CallECEF
  \/ CallECEFRatio
  \/ CallECEFFromFeet
  \/ CallECEFFromMeters

SpecECEF == InitECEF /\ [][NextECEF]_vars

-----------------------------------------------------------------------------
(* PointAtFraction.h: sampling a trajectory at a fraction of its duration  *)
(* or of its length.  The header declares the algorithm and its driver     *)
(* functions; the implementation for a trajectory is written after the     *)
(* description of the Fraction Sampler: the target is T0 + f * (T1 - T0),  *)
(* the pair of consecutive points straddling the target is located and the *)
(* sample is interpolated between the two in proportion.                   *)

\* The largest number of points of a trajectory, the latest timestamp of a
\* point of a trajectory (in ticks), and the fractions k / FractionSteps.
MaxPathLen == 3
MaxTime == 3
FractionSteps == 4

Min(S) == CHOOSE x \in S : \A y \in S : x <= y

\* The whole number of ticks in x, the fraction cut off.
TruncToInt(x) ==
  IF x.e >= 0 THEN TruncDiv(x.n * Pow10(x.e), x.d)
  ELSE TruncDiv(x.n, x.d * Pow10(-x.e))

\* The change of longitude from `from' to `to' along the shorter arc.
LongitudeDelta(from, to) ==
  LET d == Sub(to.lon, from.lon)
  IN  IF Less(I2N(180), d) THEN Sub(d, I2N(360))
      ELSE IF Less(d, I2N(-180)) THEN Add(d, I2N(360))
      ELSE d

\* interpolate on two trajectory points of the equator: the point the
\* fraction t of the way from left to right, in space and in time.
interpolate(left, right, t) ==
  Point(Add(left.lon, Mul(t, LongitudeDelta(left, right))),
        left.lat,
        left.ts + TruncToInt(Mul(t, I2N(right.ts - left.ts))),
        left.props)

\* The fraction of the way from lo to hi at which target lies; the start of
\* a pair with no extent.
Interpolant(lo, hi, target) ==
  IF Eq(lo, hi) THEN Zero ELSE Div(Sub(target, lo), Sub(hi, lo))

\* algorithms::point_at_time_fraction<trajectory>::apply
point_at_time_fraction_apply(trajectory, fraction) ==
  IF Len(trajectory) < 2 THEN Throw("InvalidTrajectory", "fewer than two points")
  ELSE
    LET T0 == trajectory[1].ts
        T1 == trajectory[Len(trajectory)].ts
        target == Add(I2N(T0), Mul(fraction, I2N(T1 - T0)))
        i == Min({j \in 1..(Len(trajectory) - 1) :
                    Leq(target, I2N(trajectory[j + 1].ts))})
        t == Interpolant(I2N(trajectory[i].ts), I2N(trajectory[i + 1].ts), target)
    IN  Ok(interpolate(trajectory[i], trajectory[i + 1], t))

\* The length of the trajectory up to its point number j: the sum of the
\* distances between consecutive points.
RECURSIVE cumulative_length(_, _)
cumulative_length(trajectory, j) ==
  IF j <= 1 THEN Zero
  ELSE Add(cumulative_length(trajectory, j - 1),
           distance(trajectory[j - 1], trajectory[j]))

\* The lengths up to each point of the trajectory.
cumulative_lengths(trajectory) ==
  [j \in 1..Len(trajectory) |-> cumulative_length(trajectory, j)]

\* The pair of points straddling the length target: the first that ends at
\* or after it.
length_segment(lengths, target) ==
  Min({j \in 1..(Len(lengths) - 1) : Leq(target, lengths[j + 1])})

sample_at_length(trajectory, lengths, target, i) ==
  interpolate(trajectory[i], trajectory[i + 1],
              Interpolant(lengths[i], lengths[i + 1], target))

sample_by_length(trajectory, lengths, target) ==
  sample_at_length(trajectory, lengths, target, length_segment(lengths, target))

\* algorithms::point_at_length_fraction<trajectory>::apply
point_at_length_fraction_apply(trajectory, fraction) ==
  IF Len(trajectory) < 2 THEN Throw("InvalidTrajectory", "fewer than two points")
  ELSE
    LET lengths == cumulative_lengths(trajectory)
        target == Mul(fraction, lengths[Len(trajectory)])
    IN  Ok(sample_by_length(trajectory, lengths, target))

point_at_time_fraction_by_length(path_, fraction) ==
  point_at_length_fraction_apply(path_, fraction)

\* tracktable::point_at_time_fraction: the driver function
point_at_time_fraction(path_, fraction) ==
  point_at_time_fraction_apply(path_, fraction)

point_at_length_fraction_by_time(path_, fraction) ==
  point_at_time_fraction_apply(path_, fraction)

\* tracktable::point_at_length_fraction: the driver function
point_at_length_fraction(path_, fraction) ==
  point_at_length_fraction_apply(path_, fraction)

-----------------------------------------------------------------------------
(* SpecFraction: the two samplers on every trajectory *)

PathLongitudes == {I2N(0), I2N(90), I2N(180)}

PathPoints ==
  {Point(lon, Zero, ts, NoProperties) : lon \in PathLongitudes, ts \in 0..MaxTime}

\* Trajectories in time order that start at longitude 0 at time 0; two
\* points may carry the same timestamp or the same position.
Trajectories ==
  UNION { { tr \in [1..len -> PathPoints] :
              /\ len >= 1 => (tr[1].ts = 0 /\ tr[1].lon = Zero)
              /\ \A j \in 1..(len - 1) : tr[j].ts <= tr[j + 1].ts } :
          len \in 0..MaxPathLen }

Fractions == {Div(I2N(k), I2N(FractionSteps)) : k \in 0..FractionSteps}

InitFraction ==
  /\ nums = [a |-> Zero, b |-> Zero]
  /\ from_pt = NoPoint
  /\ to_pt = NoPoint
  /\ path \in Trajectories
  /\ op = "none"
  /\ args = <<>>
  /\ ret = <<>>

CallPointAtTimeFraction ==
  /\ Idle
  /\ \E fraction \in Fractions :
       /\ args' = <<fraction>>
       /\ ret' = point_at_time_fraction(path, fraction)
  /\ op' = "point_at_time_fraction"
  /\ UNCHANGED <<nums, from_pt, to_pt, path>>

CallPointAtLengthFraction ==
  /\ Idle
  /\ \E fraction \in Fractions :
       /\ args' = <<fraction>>
       /\ ret' = point_at_length_fraction(path, fraction)
  /\ op' = "point_at_length_fraction"
  /\ UNCHANGED <<nums, from_pt, to_pt, path>>

NextFraction == CallPointAtTimeFraction \/ CallPointAtLengthFraction

SpecFraction == InitFraction /\ [][NextFraction]_vars

-----------------------------------------------------------------------------
(* Claims about the floating point comparisons, checked under SpecFloat *)

CalledAlmostEqual == op = "almost_equal"
DefaultTolerance == args = <<EQUALITY_RELATIVE_TOLERANCE>>

\* C3: almost_equal(a, a) returns true for every finite a and for a = +infinity
\* and a = -infinity, whatever the tolerance (zero and NaN included).
C3_AlmostEqualReflexive ==
  (CalledAlmostEqual /\ nums.a = nums.b /\ ~IsNaN(nums.a)) => ret = TRUE

\* almost_equal(+inf, +inf, 0) was called and returned true.
C3_Witness ==
  /\ CalledAlmostEqual
  /\ nums = [a |-> PosInf, b |-> PosInf]
  /\ args = <<Zero>>
  /\ ret = TRUE

\* C4: almost_equal(1e-10, -1e-10) with the default tolerance returns true.
C4_TinyOppositeSignsAlmostEqual ==
  (/\ CalledAlmostEqual
   /\ nums = [a |-> Dec(1, -10), b |-> Dec(-1, -10)]
   /\ DefaultTolerance)
  => ret = TRUE

\* |a-b| / (|a|+|b|) < tol in real numbers, without dividing: for finite
\* nonzero a and b the denominator is positive.
RelativeErrorBelow(a, b, tol) ==
  /\ IsFin(a) /\ IsFin(b)
  /\ Less(Abs(Sub(a, b)), Mul(tol, Add(Abs(a), Abs(b))))

\* C5: for nonzero a # b with |a-b| not below machine epsilon,
\* almost_equal(a, b, tol) is true iff |a-b| / (|a|+|b|) < tol; with the
\* default tolerance almost_equal(1.0, 1.00002) is true and
\* almost_equal(1.0, 1.1) is false.
C5_RelativeErrorDecides ==
  CalledAlmostEqual =>
    /\ (/\ ~Eq(nums.a, Zero) /\ ~Eq(nums.b, Zero) /\ ~Eq(nums.a, nums.b)
        /\ ~Less(Abs(Sub(nums.a, nums.b)), DBL_EPSILON))
       => (ret = RelativeErrorBelow(nums.a, nums.b, args[1]))
    /\ (nums = [a |-> One, b |-> Dec(100002, -5)] /\ DefaultTolerance)
       => ret = TRUE
    /\ (nums = [a |-> One, b |-> Dec(11, -1)] /\ DefaultTolerance)
       => ret = FALSE

\* almost_equal(1.0, 1.00002) was called with the default tolerance and
\* went through the relative test.
C5_Witness ==
  /\ CalledAlmostEqual
  /\ nums = [a |-> One, b |-> Dec(100002, -5)]
  /\ DefaultTolerance
  /\ ret = TRUE

\* Exactly one of the two operands is zero.
OneOperandZero == IsZero(nums.a) # IsZero(nums.b)

\* The operand that is not zero.
OtherOperand == IF IsZero(nums.a) THEN nums.b ELSE nums.a

\* A nonzero finite double that is not subnormal.
IsNormal(x) == IsFin(x) /\ ~IsZero(x) /\ ~Less(Abs(x), DBL_MIN)

\* C13: when exactly one operand of almost_equal is zero the result is true
\* only if the magnitude of the other is below tolerance times the smallest
\* positive normal value, so with the default tolerance almost_equal(0, x)
\* is false for every nonzero normal x: almost_equal(0.0, 1e-9) is false
\* although almost_zero(1e-9) is true, almost_zero(x, eps) being |x| < eps.
C13_ZeroOperandComparesAbsolutely ==
  /\ (CalledAlmostEqual /\ OneOperandZero) =>
       /\ ret = Less(Abs(OtherOperand), Mul(args[1], DBL_MIN))
       /\ (DefaultTolerance /\ IsNormal(OtherOperand) => ret = FALSE)
       /\ (DefaultTolerance /\ nums = [a |-> Zero, b |-> Dec(1, -9)]
             => ret = FALSE)
  /\ op = "almost_zero" =>
       /\ ret = Less(Abs(nums.a), args[1])
       /\ (DefaultTolerance /\ nums.a = Dec(1, -9) => ret = TRUE)

\* almost_equal(0.0, 1e-9) was called with the default tolerance and returned
\* false.
C13_Witness ==
  /\ CalledAlmostEqual
  /\ nums = [a |-> Zero, b |-> Dec(1, -9)]
  /\ DefaultTolerance
  /\ ret = FALSE

-----------------------------------------------------------------------------
(* Claims about speed_between, checked under SpecSpeed *)

CalledSpeedBetween == op = "speed_between"

\* The time from from_pt to to_pt in seconds, fractions included.
ElapsedSeconds == Div(I2N(to_pt.ts - from_pt.ts), I2N(TicksPerSecond))

\* C1: speed_between(from, to) returns 0 whenever from and to carry the same
\* timestamp, whatever the distance between them: nothing is divided by the
\* zero elapsed time.
C1_SameTimestampZeroSpeed ==
  (CalledSpeedBetween /\ from_pt.ts = to_pt.ts) => ret = Zero

\* speed_between was called on two points half the equator apart that carry
\* the same timestamp, and returned 0.
C1_Witness ==
  /\ CalledSpeedBetween
  /\ from_pt.ts = to_pt.ts
  /\ from_pt.lon = I2N(0) /\ to_pt.lon = I2N(180)
  /\ Less(Zero, distance(from_pt, to_pt))
  /\ ret = Zero

\* C2: when the elapsed time s = to.timestamp - from.timestamp, in seconds,
\* is not almost zero, speed_between(from, to) is 3600 * distance(from, to) / s
\* km/h: a segment of D km that spans 3600 s yields D, and the result has the
\* sign of s, so that speed_between(a, b) = -speed_between(b, a).
C2_SpeedIsDistanceOverElapsed ==
  (CalledSpeedBetween /\ ~almost_zero_default(ElapsedSeconds)) =>
    /\ ret = Div(Mul(Dec(3600, 0), distance(from_pt, to_pt)), ElapsedSeconds)
    /\ (ElapsedSeconds = Dec(3600, 0) => ret = distance(from_pt, to_pt))
    /\ (Less(Zero, distance(from_pt, to_pt)) =>
          (Less(ret, Zero) <=> Less(ElapsedSeconds, Zero)))
    /\ ret = Neg(speed_between(to_pt, from_pt))

\* C11: terrestrial distance is the great-circle angle in radians times one
\* fixed positive scalar, the mean radius of the Earth in km, and length
\* uses the same scalar; so distance(p, p) = 0 and
\* distance(p, r) <= distance(p, q) + distance(q, r).
C11_DistanceIsScaledAngle ==
  /\ Less(Zero, EARTH_RADIUS_IN_KM)
  /\ op = "distance" =>
       /\ ret = Mul(bg_distance(from_pt, to_pt), EARTH_RADIUS_IN_KM)
       /\ (from_pt.lon = to_pt.lon /\ from_pt.lat = to_pt.lat => ret = Zero)
       /\ \A q \in BarePoints :
            Leq(ret, Add(distance(from_pt, q), distance(q, to_pt)))
  /\ op = "length" =>
       /\ ret = Mul(bg_length(<<from_pt, args[1], to_pt>>), EARTH_RADIUS_IN_KM)
       /\ ret = Add(distance(from_pt, args[1]), distance(args[1], to_pt))
       /\ Leq(distance(from_pt, to_pt), ret)

\* distance was called on the points at 0 and 90 degrees of the equator and
\* returned a quarter of the circumference, 11/7 * 6371 km.
C11_Witness ==
  /\ op = "distance"
  /\ from_pt.lon = I2N(0) /\ to_pt.lon = I2N(90)
  /\ ret = Div(I2N(70081), I2N(7))

\* The whole seconds in a duration of so many ticks: the integer of the
\* same sign that leaves a remainder of less than a second on the side of
\* zero.
WholeSeconds(ticks) ==
  CHOOSE n \in -3600..3600 :
    /\ n * ticks >= 0
    /\ AbsInt(n) * TicksPerSecond <= AbsInt(ticks)
    /\ AbsInt(ticks) - AbsInt(n) * TicksPerSecond < TicksPerSecond

\* C12: speed_between measures the elapsed time in whole seconds, cut off
\* toward zero, so the speed is 0 exactly when the timestamps differ by less
\* than one second in either direction, whatever the distance, and a
\* difference of a whole second or more goes through the division.
C12_WholeSecondsDecide ==
  CalledSpeedBetween =>
    LET ticks == to_pt.ts - from_pt.ts
        D == distance(from_pt, to_pt)
    IN  /\ (AbsInt(ticks) < TicksPerSecond => ret = Zero)
        /\ (AbsInt(ticks) >= TicksPerSecond =>
              /\ ret = Div(Mul(Dec(3600, 0), D), I2N(WholeSeconds(ticks)))
              /\ (Less(Zero, D) => ret # Zero))

\* speed_between was called on two points half the equator apart, the second
\* one tick earlier than the first, and returned 0.
C12_Witness ==
  /\ CalledSpeedBetween
  /\ to_pt.ts - from_pt.ts = -1
  /\ from_pt.lon = I2N(0) /\ to_pt.lon = I2N(180)
  /\ ret = Zero

-----------------------------------------------------------------------------
(* Claims about the ECEF transform, checked under SpecECEF *)

ECEFWrappers == {"ECEF", "ECEF_ratio", "ECEF_from_feet", "ECEF_from_meters"}

\* A wrapper was called; args[2] is the name of the altitude property.
CalledWrapper == op \in ECEFWrappers

OnEquator(lon_deg, alt) ==
  LET r == Add(Dec(6378137, -3), alt)
  IN  CASE lon_deg = I2N(0) -> <<r, Zero, Zero>>
        [] lon_deg = I2N(90) -> <<Zero, r, Zero>>
        [] lon_deg = I2N(180) -> <<Neg(r), Zero, Zero>>
        [] lon_deg = I2N(-90) -> <<Zero, Neg(r), Zero>>

\* The altitude in km a wrapper makes of the property value h: km as they
\* are, metres by the thousand, feet at 0.3048 m, and ratio * h.
AltitudeKm(h) ==
  CASE op = "ECEF" -> h
    [] op = "ECEF_from_meters" -> Div(h, I2N(1000))
    [] op = "ECEF_from_feet" -> Div(Mul(h, Dec(3048, -4)), I2N(1000))
    [] op = "ECEF_ratio" -> Mul(args[1], h)

C7_PresentAltitude ==
  (CalledWrapper /\ from_pt.props[args[2]].present) =>
    LET h == from_pt.props[args[2]].value
    IN  /\ (op = "ECEF" => args[2] = "altitude")
        /\ ret = Ok(ECEF_from_km(radians(from_pt.lon), radians(from_pt.lat),
                                 AltitudeKm(h)))
        /\ ret.val = OnEquator(from_pt.lon, AltitudeKm(h))

\* C7: when the named altitude property is present with value h,
\* ECEF(ratio, name) returns ECEF_from_km(radians(lon), radians(lat), ratio*h);
\* ECEF_from_feet uses the ratio 1/3280.839895013123, ECEF_from_meters 1/1000
\* and ECEF() the property "altitude" with ratio 1; the degrees are turned
\* into radians first and the point is left unchanged.
C7_WrapperConvertsAltitude ==
  /\ []C7_PresentAltitude
  /\ [][op' \in ECEFWrappers => from_pt' = from_pt]_vars

\* ECEF_from_feet("height") was called on the point at 90 degrees east whose
\* height is 2500 ft, and returned (0, 6378.137 + 0.762, 0).
C7_Witness ==
  /\ op = "ECEF_from_feet"
  /\ args[2] = "height"
  /\ from_pt.lon = I2N(90)
  /\ from_pt.props["height"] = Real(I2N(2500))
  /\ ret = Ok(<<Zero, Dec(6378899, -3), Zero>>)

\* C8: ECEF_from_km(0, 0, 0) is (6378.137, 0, 0); at longitude 0 and latitude
\* 0 with altitude h it is (6378.137 + h, 0, 0); on the equator, where
\* N = a, x = (a + alt) cos(lon), y = (a + alt) sin(lon) and z = 0.
C8_ECEFOnEquator ==
  op = "ECEF_from_km" =>
    /\ (args = <<Zero, Zero, Zero>> =>
          ret = Ok(<<Dec(6378137, -3), Zero, Zero>>))
    /\ (args[1] = Zero /\ args[2] = Zero =>
          ret = Ok(<<Add(Dec(6378137, -3), args[3]), Zero, Zero>>))
    /\ \A lon \in Longitudes :
         (args[1] = radians(lon) /\ args[2] = Zero) =>
           ret = Ok(OnEquator(lon, args[3]))

\* ECEF_from_km(0, 0, 0) was called and returned (6378.137, 0, 0).
C8_Witness ==
  /\ op = "ECEF_from_km"
  /\ args = <<Zero, Zero, Zero>>
  /\ ret = Ok(<<Dec(6378137, -3), Zero, Zero>>)

-----------------------------------------------------------------------------
(* Claims about the fraction samplers, checked under SpecFraction *)

StrictlyIncreasing(tr) == \A j \in 1..(Len(tr) - 1) : tr[j].ts < tr[j + 1].ts

\* The point of the segment from p to q reached at the time target: its
\* longitude in proportion to the elapsed time, its timestamp the tick that
\* holds target.
LinearAtTime(p, q, target) ==
  Point(Add(p.lon,
            Mul(Div(Sub(target, I2N(p.ts)), I2N(q.ts - p.ts)), Sub(q.lon, p.lon))),
        p.lat, TruncToInt(target), p.props)

\* C9: on a trajectory of at least two points with strictly increasing
\* timestamps, point_at_time_fraction(traj, 0) is the first point and
\* point_at_time_fraction(traj, 1) the last; for 0 < f < 1 the result is the
\* linear interpolation, in proportion to elapsed time, between the pair of
\* consecutive points that straddles T0 + f * (T1 - T0).
C9_TimeFractionInterpolates ==
  (/\ op = "point_at_time_fraction"
   /\ Len(path) >= 2
   /\ StrictlyIncreasing(path)) =>
    LET f == args[1]
        T0 == path[1].ts
        T1 == path[Len(path)].ts
        target == Add(I2N(T0), Mul(f, I2N(T1 - T0)))
    IN  /\ ret.kind = "ok"
        /\ (f = Zero => ret.val = path[1])
        /\ (f = One => ret.val = path[Len(path)])
        /\ (Less(Zero, f) /\ Less(f, One)) =>
             \E j \in 1..(Len(path) - 1) :
               /\ Leq(I2N(path[j].ts), target)
               /\ Leq(target, I2N(path[j + 1].ts))
               /\ ret.val = LinearAtTime(path[j], path[j + 1], target)

\* point_at_time_fraction(traj, 1/2) was called on three points at 0, 90 and
\* 180 degrees with the timestamps 0, 1 and 3, and returned the point a
\* quarter of the way from the second to the third.
C9_Witness ==
  /\ op = "point_at_time_fraction"
  /\ Len(path) = 3
  /\ path[1] = Point(I2N(0), Zero, 0, NoProperties)
  /\ path[2] = Point(I2N(90), Zero, 1, NoProperties)
  /\ path[3] = Point(I2N(180), Zero, 3, NoProperties)
  /\ args = <<Div(One, I2N(2))>>
  /\ ret = Ok(Point(Dec(1125, -1), Zero, 1, NoProperties))

\* The length of the trajectory from its start to the sample taken at the
\* fraction f: up to the first point of the pair the sample lies between,
\* and from that point to the sample.
ArcLengthFrom(tr, lengths, i, sample) ==
  Add(lengths[i], distance(tr[i], sample))

ArcLengthIn(tr, lengths, f, sample) ==
  ArcLengthFrom(tr, lengths,
                length_segment(lengths, Mul(f, lengths[Len(tr)])), sample)

ArcLengthTo(tr, f, sample) == ArcLengthIn(tr, cumulative_lengths(tr), f, sample)

NoSampleBelow(arc) ==
  \A f2 \in Fractions :
    Less(args[1], f2) =>
      Leq(arc, ArcLengthTo(path, f2, point_at_length_fraction(path, f2).val))

\* C10: point_at_length_fraction is monotonic on a trajectory of at least
\* two points: for f1 < f2 the cumulative arc length to the sample at f1 is
\* at most the cumulative arc length to the sample at f2.
C10_LengthFractionMonotonic ==
  (op = "point_at_length_fraction" /\ Len(path) >= 2) =>
    /\ ret.kind = "ok"
    /\ NoSampleBelow(ArcLengthTo(path, args[1], ret.val))

\* point_at_length_fraction(traj, 1/2) was called on three points at 0, 180
\* and 90 degrees, and returned the point at 135 degrees on the first leg.
C10_Witness ==
  /\ op = "point_at_length_fraction"
  /\ Len(path) = 3
  /\ path[1].lon = I2N(0) /\ path[2].lon = I2N(180) /\ path[3].lon = I2N(90)
  /\ path[1].ts < path[2].ts
  /\ args = <<Div(One, I2N(2))>>
  /\ ret.val.lon = I2N(135)

=============================================================================
